---- MODULE Spec2Model ----
(***************************************************************************)
(* State-machine model of StompWebSocketClient (services/websocket.ts):    *)
(* one client object, the WebSocket objects it creates, the timers it      *)
(* sets, and the frames it writes on each socket.                          *)
(***************************************************************************)
EXTENDS Integers, Sequences, FiniteSets, Bags, TLC

\* ---- bounds of the exploration -----------------------------------------
MaxTransports == 2      \* WebSocket objects created in one behaviour
MaxTimers == 2          \* pending timers beyond which connect() is not called
MaxSubscriptions == 3   \* largest value of subscriptionCounter
MaxCallbacks == 2       \* longest callback list of one destination
MaxBlobs == 1           \* Blob frames being decoded at one time
MaxRequests == 1        \* SEND frames written on one socket

\* ---- program constants -------------------------------------------------
maxReconnectAttempts == 5
reconnectDelay == 1000
connectDelay == 500

AccountKeys == {"ACC1"}     \* the account keys the collaborators use
MarketCallbackIds == {"onDepth", "onLastTrade"}   \* market-data callbacks
CallbackIds == {"f", "g"}   \* the callback functions they register

\* the keys used where messages of several destinations are told apart
RouterAccountKeys == {"ACC1", "ACC2"}
InstrumentKeys == {"AAPL"}

\* keys that hold the substrings handleStompMessage looks for
TemplateAccountKeys == {"ACC1", "x/markets/y/depth"}
TemplateInstrumentKeys == {"AAPL", "a/depth"}

VARIABLES
  ws,                   \* this.ws: index into sockets, 0 for null
  reconnectAttempts,    \* this.reconnectAttempts
  callbacks,            \* this.callbacks: Map, a sequence of [key, val] in insertion order
  marketCallbacks,      \* this.marketCallbacks
  depthCallbacks,       \* this.depthCallbacks
  lastTradeCallbacks,   \* this.lastTradeCallbacks
  subscriptions,        \* this.subscriptions: destination -> id
  subscriptionCounter,  \* this.subscriptionCounter
  connected,            \* this.connected
  wsUrlValid,           \* whether new WebSocket(this.wsUrl) succeeds
  sockets,              \* every WebSocket object created so far
  timers,               \* bag of pending setTimeout(connectInternal) timers
  blobs,                \* bag of Blob frames whose text() has not resolved yet
  last,                 \* the operation or event handled by the last step
  invoked               \* callbacks invoked by the step just taken, in order

vars == <<ws, reconnectAttempts, callbacks, marketCallbacks, depthCallbacks,
          lastTradeCallbacks, subscriptions, subscriptionCounter, connected,
          wsUrlValid, sockets, timers, blobs, last, invoked>>

\* ---- Map<string, T> with insertion order --------------------------------
EmptyMap == << >>

MapIndex(m, k) ==
  IF \E i \in 1..Len(m) : m[i].key = k
  THEN CHOOSE i \in 1..Len(m) : m[i].key = k
  ELSE 0

MapHas(m, k) == MapIndex(m, k) # 0

MapGet(m, k) == m[MapIndex(m, k)].val

MapSet(m, k, v) ==
  IF MapHas(m, k)
  THEN [m EXCEPT ![MapIndex(m, k)].val = v]
  ELSE Append(m, [key |-> k, val |-> v])

MapDelete(m, k) ==
  IF MapHas(m, k)
  THEN [i \in 1..(Len(m) - 1) |-> IF i < MapIndex(m, k) THEN m[i] ELSE m[i + 1]]
  ELSE m

MapKeys(m) == [i \in 1..Len(m) |-> m[i].key]

\* ---- arrays --------------------------------------------------------------
\* Array.prototype.indexOf, 1-based; 0 stands for -1
indexOf(a, x) ==
  IF \E i \in 1..Len(a) : a[i] = x
  THEN CHOOSE i \in 1..Len(a) : a[i] = x /\ \A j \in 1..(i - 1) : a[j] # x
  ELSE 0

\* Array.prototype.splice(index, 1)
splice(a, index) == [i \in 1..(Len(a) - 1) |-> IF i < index THEN a[i] ELSE a[i + 1]]

RECURSIVE pow(_, _)
pow(b, e) == IF e = 0 THEN 1 ELSE b * pow(b, e - 1)

\* ---- destinations and frames ---------------------------------------------
AccountDestination(accountKey) == "/account/" \o accountKey \o "/updates"

Destinations == {AccountDestination(k) : k \in AccountKeys}

DepthDestination(instrumentKey) == "/markets/" \o instrumentKey \o "/depth"
LastTradeDestination(instrumentKey) == "/markets/" \o instrumentKey \o "/last_trade"

RouterDestinations ==
  {AccountDestination(k) : k \in RouterAccountKeys}
    \cup {DepthDestination(i) : i \in InstrumentKeys}
    \cup {LastTradeDestination(i) : i \in InstrumentKeys}

\* String.prototype.includes and startsWith
includes(str, sub) ==
  \E i \in 1..(Len(str) - Len(sub) + 1) : SubSeq(str, i, i + Len(sub) - 1) = sub

startsWith(str, prefix) ==
  Len(prefix) <= Len(str) /\ SubSeq(str, 1, Len(prefix)) = prefix

\* an outbound frame: command, the id and destination headers it carries (0 and
\* "" when it has none), and `about`, the destination the frame concerns (an
\* UNSUBSCRIBE frame names its subscription by id alone)
Frame(command, id, destination, about) ==
  [command |-> command, id |-> id, destination |-> destination, about |-> about]

ConnectFrame == Frame("CONNECT", 0, "", "")
DisconnectFrame == Frame("DISCONNECT", 0, "", "")
SubscribeFrame(subId, destination) == Frame("SUBSCRIBE", subId, destination, destination)
UnsubscribeFrame(subId, destination) == Frame("UNSUBSCRIBE", subId, "", destination)

\* inbound wire text, by what parseMessage distinguishes
ConnectedMessage == [command |-> "CONNECTED", destination |-> ""]
StompMessage(destination) == [command |-> "MESSAGE", destination |-> destination]

\* ---- the WebSocket objects -----------------------------------------------
\* readyState, the frames written with send(), and whether the peer has
\* answered a CONNECT frame on this socket with CONNECTED
NewSocket == [readyState |-> "CONNECTING", sent |-> << >>, acked |-> FALSE]

\* ---- the client object as a record ---------------------------------------
Self ==
  [ws |-> ws, reconnectAttempts |-> reconnectAttempts, callbacks |-> callbacks,
   marketCallbacks |-> marketCallbacks, depthCallbacks |-> depthCallbacks,
   lastTradeCallbacks |-> lastTradeCallbacks, subscriptions |-> subscriptions,
   subscriptionCounter |-> subscriptionCounter, connected |-> connected,
   sockets |-> sockets, timers |-> timers]

Becomes(s) ==
  /\ ws' = s.ws
  /\ reconnectAttempts' = s.reconnectAttempts
  /\ callbacks' = s.callbacks
  /\ marketCallbacks' = s.marketCallbacks
  /\ depthCallbacks' = s.depthCallbacks
  /\ lastTradeCallbacks' = s.lastTradeCallbacks
  /\ subscriptions' = s.subscriptions
  /\ subscriptionCounter' = s.subscriptionCounter
  /\ connected' = s.connected
  /\ sockets' = s.sockets
  /\ timers' = s.timers

\* this.ws?.readyState === WebSocket.OPEN
wsOpen(s) == s.ws # 0 /\ s.sockets[s.ws].readyState = "OPEN"

\* this.ws.send(frame), called only behind a readyState check
send(s, frame) == [s EXCEPT !.sockets[s.ws].sent = Append(@, frame)]

\* setTimeout(() => this.connectInternal(), delay)
setTimeout(s, delay) ==
  [s EXCEPT !.timers = @ (+) SetToBag({[delay |-> delay, stale |-> FALSE]})]

\* WebSocket.close(): CONNECTING or OPEN becomes CLOSING, the close event follows
close(s) ==
  IF s.sockets[s.ws].readyState \in {"CONNECTING", "OPEN"}
  THEN [s EXCEPT !.sockets[s.ws].readyState = "CLOSING"]
  ELSE s

\* ---- methods of StompWebSocketClient -------------------------------------
\* attemptReconnect with the exponent taken from the incremented counter
attemptReconnectDoubled(s) ==
  IF s.reconnectAttempts < maxReconnectAttempts
  THEN LET n == s.reconnectAttempts + 1
           delay == reconnectDelay * pow(2, n)
       IN setTimeout([s EXCEPT !.reconnectAttempts = n], delay)
  ELSE s

\* attemptReconnect with <= in place of < in its test
attemptReconnectInclusive(s) ==
  IF s.reconnectAttempts <= maxReconnectAttempts
  THEN LET n == s.reconnectAttempts + 1
           delay == reconnectDelay * pow(2, n - 1)
       IN setTimeout([s EXCEPT !.reconnectAttempts = n], delay)
  ELSE s

attemptReconnect(s) ==
  IF s.reconnectAttempts < maxReconnectAttempts
  THEN LET n == s.reconnectAttempts + 1
           delay == reconnectDelay * pow(2, n - 1)
       IN setTimeout([s EXCEPT !.reconnectAttempts = n], delay)
  ELSE s

connect(s) ==
  IF wsOpen(s) \/ s.connected
  THEN s
  ELSE setTimeout(s, connectDelay)

connectInternal(s) ==
  IF wsUrlValid
  THEN [s EXCEPT !.sockets = Append(@, NewSocket), !.ws = Len(s.sockets) + 1]
  ELSE attemptReconnect(s)

sendConnect(s) ==
  IF wsOpen(s) THEN send(s, ConnectFrame) ELSE s

\* onopen that also resets the attempt counter, as if the open were the success
onopenResets(s) == sendConnect([s EXCEPT !.connected = FALSE, !.reconnectAttempts = 0])

onopen(s) == sendConnect([s EXCEPT !.connected = FALSE])

\* onclose that schedules no reconnect
oncloseNoRetry(s) == [s EXCEPT !.connected = FALSE]

onclose(s) == attemptReconnect([s EXCEPT !.connected = FALSE])

subscribeToDestination(s, destination) ==
  IF destination \in DOMAIN s.subscriptions
  THEN s
  ELSE LET subId == s.subscriptionCounter + 1
           s1 == [s EXCEPT !.subscriptionCounter = subId,
                           !.subscriptions = (destination :> subId) @@ @]
       IN IF wsOpen(s1) THEN send(s1, SubscribeFrame(subId, destination)) ELSE s1

RECURSIVE subscribeEach(_, _, _)
subscribeEach(s, keys, i) ==
  IF i > Len(keys)
  THEN s
  ELSE subscribeEach(subscribeToDestination(s, keys[i]), keys, i + 1)

resubscribeAll(s) ==
  LET s1 == subscribeEach(s, MapKeys(s.callbacks), 1)
      s2 == subscribeEach(s1, MapKeys(s1.marketCallbacks), 1)
      s3 == subscribeEach(s2, MapKeys(s2.depthCallbacks), 1)
  IN subscribeEach(s3, MapKeys(s3.lastTradeCallbacks), 1)

subscribe(s, accountKey, callback) ==
  LET destination == AccountDestination(accountKey)
      list == IF MapHas(s.callbacks, destination)
              THEN MapGet(s.callbacks, destination)
              ELSE << >>
      s1 == [s EXCEPT !.callbacks = MapSet(@, destination, Append(list, callback))]
  IN IF s1.connected /\ wsOpen(s1)
     THEN subscribeToDestination(s1, destination)
     ELSE s1

\* the shared tail of unsubscribe and unsubscribeFromMarketData: the registry
\* entry is gone, the UNSUBSCRIBE frame goes out if there is an id and the socket is open
releaseSubscription(s, destination) ==
  IF /\ destination \in DOMAIN s.subscriptions
     /\ s.subscriptions[destination] # 0
     /\ wsOpen(s)
  THEN LET s1 == send(s, UnsubscribeFrame(s.subscriptions[destination], destination))
       IN [s1 EXCEPT !.subscriptions =
                        [d \in (DOMAIN @) \ {destination} |-> @[d]]]
  ELSE s

\* unsubscribe without the index > -1 test: splice(-1, 1) removes the last element
unsubscribeUnchecked(s, accountKey, callback) ==
  LET destination == AccountDestination(accountKey)
  IN IF ~MapHas(s.callbacks, destination)
     THEN s
     ELSE LET list == MapGet(s.callbacks, destination)
              index == indexOf(list, callback)
              list1 == splice(list, IF index > 0 THEN index ELSE Len(list))
          IN IF Len(list1) = 0
             THEN releaseSubscription(
                    [s EXCEPT !.callbacks = MapDelete(@, destination)], destination)
             ELSE [s EXCEPT !.callbacks = MapSet(@, destination, list1)]

\* unsubscribe that tests this.ws instead of its readyState before sending
unsubscribeSendsUnlessNull(s, accountKey, callback) ==
  LET destination == AccountDestination(accountKey)
  IN IF ~MapHas(s.callbacks, destination)
     THEN s
     ELSE LET list == MapGet(s.callbacks, destination)
              index == indexOf(list, callback)
              list1 == IF index > 0 THEN splice(list, index) ELSE list
              s1 == [s EXCEPT !.callbacks = MapDelete(@, destination)]
          IN IF Len(list1) = 0
             THEN IF destination \in DOMAIN s1.subscriptions /\ s1.ws # 0
                  THEN [send(s1, UnsubscribeFrame(s1.subscriptions[destination],
                                                  destination))
                          EXCEPT !.subscriptions =
                                    [d \in (DOMAIN @) \ {destination} |-> @[d]]]
                  ELSE s1
             ELSE [s EXCEPT !.callbacks = MapSet(@, destination, list1)]

unsubscribe(s, accountKey, callback) ==
  LET destination == AccountDestination(accountKey)
  IN IF ~MapHas(s.callbacks, destination)
     THEN s
     ELSE LET list == MapGet(s.callbacks, destination)
              index == indexOf(list, callback)
              list1 == IF index > 0 THEN splice(list, index) ELSE list
          IN IF Len(list1) = 0
             THEN releaseSubscription(
                    [s EXCEPT !.callbacks = MapDelete(@, destination)], destination)
             ELSE [s EXCEPT !.callbacks = MapSet(@, destination, list1)]

\* push on the list of key k of map m, creating the list if absent
push(m, k, callback) ==
  MapSet(m, k, Append(IF MapHas(m, k) THEN MapGet(m, k) ELSE << >>, callback))

subscribeToMarketData(s, instrumentKey, depthCallback, lastTradeCallback) ==
  LET depthDestination == DepthDestination(instrumentKey)
      lastTradeDestination == LastTradeDestination(instrumentKey)
      s1 == [s EXCEPT !.depthCallbacks = push(@, depthDestination, depthCallback),
                      !.lastTradeCallbacks =
                         push(@, lastTradeDestination, lastTradeCallback)]
  IN IF s1.connected /\ wsOpen(s1)
     THEN subscribeToDestination(subscribeToDestination(s1, depthDestination),
                                 lastTradeDestination)
     ELSE s1

unsubscribeFromMarketData(s, instrumentKey, depthCallback, lastTradeCallback) ==
  LET depthDestination == DepthDestination(instrumentKey)
      lastTradeDestination == LastTradeDestination(instrumentKey)
      s1 == IF ~MapHas(s.depthCallbacks, depthDestination)
            THEN s
            ELSE LET list == MapGet(s.depthCallbacks, depthDestination)
                     index == indexOf(list, depthCallback)
                     list1 == IF index > 0 THEN splice(list, index) ELSE list
                 IN IF Len(list1) = 0
                    THEN releaseSubscription(
                           [s EXCEPT !.depthCallbacks = MapDelete(@, depthDestination)],
                           depthDestination)
                    ELSE [s EXCEPT !.depthCallbacks = MapSet(@, depthDestination, list1)]
  IN IF ~MapHas(s1.lastTradeCallbacks, lastTradeDestination)
     THEN s1
     ELSE LET list == MapGet(s1.lastTradeCallbacks, lastTradeDestination)
              index == indexOf(list, lastTradeCallback)
              list1 == IF index > 0 THEN splice(list, index) ELSE list
          IN IF Len(list1) = 0
             THEN releaseSubscription(
                    [s1 EXCEPT !.lastTradeCallbacks =
                                  MapDelete(@, lastTradeDestination)],
                    lastTradeDestination)
             ELSE [s1 EXCEPT !.lastTradeCallbacks =
                                MapSet(@, lastTradeDestination, list1)]

\* disconnect without the this.connected test before the DISCONNECT frame
disconnectOpenOnly(s) ==
  LET s1 == IF s.ws # 0
            THEN LET s0 == IF wsOpen(s) THEN send(s, DisconnectFrame) ELSE s
                 IN [close(s0) EXCEPT !.ws = 0]
            ELSE s
  IN [s1 EXCEPT !.callbacks = EmptyMap,
                !.marketCallbacks = EmptyMap,
                !.depthCallbacks = EmptyMap,
                !.lastTradeCallbacks = EmptyMap,
                !.subscriptions = << >>,
                !.reconnectAttempts = 0,
                !.connected = FALSE]

\* disconnect that also starts the subscription identifiers again
disconnectResetsCounter(s) ==
  LET s1 == IF s.ws # 0
            THEN LET s0 == IF s.connected /\ wsOpen(s)
                           THEN send(s, DisconnectFrame)
                           ELSE s
                 IN [close(s0) EXCEPT !.ws = 0]
            ELSE s
  IN [s1 EXCEPT !.callbacks = EmptyMap,
                !.marketCallbacks = EmptyMap,
                !.depthCallbacks = EmptyMap,
                !.lastTradeCallbacks = EmptyMap,
                !.subscriptions = << >>,
                !.subscriptionCounter = 0,
                !.reconnectAttempts = 0,
                !.connected = FALSE]

disconnect(s) ==
  LET s1 == IF s.ws # 0
            THEN LET s0 == IF s.connected /\ wsOpen(s)
                           THEN send(s, DisconnectFrame)
                           ELSE s
                 IN [close(s0) EXCEPT !.ws = 0]
            ELSE s
  IN [s1 EXCEPT !.callbacks = EmptyMap,
                !.marketCallbacks = EmptyMap,
                !.depthCallbacks = EmptyMap,
                !.lastTradeCallbacks = EmptyMap,
                !.subscriptions = << >>,
                !.reconnectAttempts = 0,
                !.connected = FALSE]

\* the scope argument of sendRequest
Scopes == {"balance", "positions", "orders", "market"}

\* JSON.stringify({request: 'GET', scope: scope})
RequestBody(scope) == "{\"request\":\"GET\",\"scope\":\"" \o scope \o "\"}"

\* the SEND frame of sendRequest: the frame fields and content-length, body
SendFrame(destination, scope) ==
  [contentType |-> "application/json",
   contentLength |-> Len(RequestBody(scope)),
   body |-> RequestBody(scope)] @@ Frame("SEND", 0, destination, destination)

sendRequest(s, accountKey, scope) ==
  IF ~s.connected \/ ~wsOpen(s)
  THEN s
  ELSE send(s, SendFrame(AccountDestination(accountKey), scope))

isConnected(s) == s.connected /\ wsOpen(s)

\* callbacks.forEach(callback => callback(data)): the callbacks entered, in
\* order; a callback that throws ends the loop, the exception leaves forEach
RECURSIVE forEach(_, _, _)
forEach(list, i, throwing) ==
  IF i > Len(list)
  THEN << >>
  ELSE <<list[i]>> \o (IF list[i] \in throwing
                        THEN << >>
                        ELSE forEach(list, i + 1, throwing))

notifyCallbacks(s, destination, throwing) ==
  IF MapHas(s.callbacks, destination)
  THEN forEach(MapGet(s.callbacks, destination), 1, throwing)
  ELSE << >>

\* parseMessage, the part that changes the client
parseMessage(s, message) ==
  IF message.command = "CONNECTED"
  THEN resubscribeAll([s EXCEPT !.connected = TRUE, !.reconnectAttempts = 0])
  ELSE s

\* handleStompMessage after the header scan: the callbacks it reaches
handleStompMessage(s, message, throwing) ==
  IF message.command = "MESSAGE" /\ message.destination # ""
  THEN notifyCallbacks(s, message.destination, throwing)
  ELSE << >>

\* ---- dispatch with callbacks that call back into the client ----------------
\* the bodies of the MESSAGE frames told apart here: JSON text, text that
\* JSON.parse rejects, and no body
Bodies == {"{}", "{", ""}

\* JSON.parse(body) returns
JSONparses(body) == body \in {"{}"}

\* an unsubscribe(accountKey, callback) call made by callback `caller` when it
\* is invoked; NoCall when no callback makes one
NoCall == [caller |-> "", accountKey |-> "", callback |-> ""]

Calls ==
  {NoCall} \cup [caller : CallbackIds, accountKey : RouterAccountKeys,
                 callback : CallbackIds]

\* callbacks.forEach(callback => callback(data)) on the array the map holds:
\* forEach reads the length once (len) and then visits index k only if the
\* array still has it; an unsubscribe call made by a callback splices that
\* same array. Gives the client after the loop and the callbacks entered.
RECURSIVE forEachLive(_, _, _, _, _, _)
forEachLive(s, destination, k, len, throwing, call) ==
  LET list == IF MapHas(s.callbacks, destination)
              THEN MapGet(s.callbacks, destination)
              ELSE << >>
  IN IF k > len
     THEN [self |-> s, invoked |-> << >>]
     ELSE IF k > Len(list)
     THEN forEachLive(s, destination, k + 1, len, throwing, call)
     ELSE IF list[k] \in throwing
     THEN [self |-> s, invoked |-> <<list[k]>>]
     ELSE LET s1 == IF call.caller = list[k]
                    THEN unsubscribe(s, call.accountKey, call.callback)
                    ELSE s
              rest == forEachLive(s1, destination, k + 1, len, throwing, call)
          IN [self |-> rest.self, invoked |-> <<list[k]>> \o rest.invoked]

notifyCallbacksLive(s, destination, throwing, call) ==
  IF MapHas(s.callbacks, destination)
  THEN forEachLive(s, destination, 1, Len(MapGet(s.callbacks, destination)),
                   throwing, call)
  ELSE [self |-> s, invoked |-> << >>]

\* notifyMarketCallbacks, notifyDepthCallbacks, notifyLastTradeCallbacks on
\* their map m
notifyOf(m, destination, throwing) ==
  IF MapHas(m, destination)
  THEN forEach(MapGet(m, destination), 1, throwing)
  ELSE << >>

\* handleStompMessage from `if (destination && body)` on: the destination
\* picks the map, JSON.parse of the body comes before the callbacks, and the
\* catch swallows what JSON.parse or a callback throws
handleStompMessageLive(s, message, throwing, call) ==
  LET destination == message.destination
      none == [self |-> s, invoked |-> << >>]
  IN IF destination = "" \/ message.body = "" \/ ~JSONparses(message.body)
     THEN none
     ELSE IF includes(destination, "/markets/") /\ includes(destination, "/depth")
     THEN [none EXCEPT !.invoked = notifyOf(s.depthCallbacks, destination, throwing)]
     ELSE IF includes(destination, "/markets/") /\ includes(destination, "/last_trade")
     THEN [none EXCEPT !.invoked = notifyOf(s.lastTradeCallbacks, destination, throwing)]
     ELSE IF startsWith(destination, "/market/")
     THEN [none EXCEPT !.invoked = notifyOf(s.marketCallbacks, destination, throwing)]
     ELSE notifyCallbacksLive(s, destination, throwing, call)

\* ---- MESSAGE frames as wire text -----------------------------------------
\* stands for the character U+0000, which the code writes '\x00'
NUL == "^"

\* the characters String.prototype.trim removes
Whitespace == {" ", "\t", "\n", "\r"}

\* String.prototype.split(sep)
RECURSIVE split(_, _)
split(str, sep) ==
  IF ~includes(str, sep)
  THEN <<str>>
  ELSE LET at(i) == SubSeq(str, i, i + Len(sep) - 1) = sep
           i == CHOOSE i \in 1..Len(str) : at(i) /\ \A j \in 1..(i - 1) : ~at(j)
       IN <<SubSeq(str, 1, i - 1)>> \o split(SubSeq(str, i + Len(sep), Len(str)), sep)

\* String.prototype.trim
RECURSIVE trim(_)
trim(str) ==
  IF str = ""
  THEN ""
  ELSE IF SubSeq(str, 1, 1) \in Whitespace
  THEN trim(SubSeq(str, 2, Len(str)))
  ELSE IF SubSeq(str, Len(str), Len(str)) \in Whitespace
  THEN trim(SubSeq(str, 1, Len(str) - 1))
  ELSE str

\* String.prototype.substring(start), start counted from 0
substring(str, start) == SubSeq(str, start + 1, Len(str))

\* the for loop of handleStompMessage from line i on: every line is tested
\* for the destination prefix first, then for being empty, then taken as body
RECURSIVE scanLines(_, _, _)
scanLines(lines, i, st) ==
  IF i > Len(lines)
  THEN st
  ELSE LET line == lines[i]
           next == IF startsWith(line, "destination:")
                   THEN [st EXCEPT !.destination =
                                     trim(substring(line, Len("destination:")))]
                   ELSE IF line = ""
                   THEN [st EXCEPT !.inBody = TRUE]
                   ELSE IF st.inBody /\ line # NUL
                   THEN [st EXCEPT !.body = @ \o line]
                   ELSE st
       IN scanLines(lines, i + 1, next)

\* handleStompMessage up to `if (destination && body)`: the destination and
\* the body it takes from the wire text
decodeMessage(message) ==
  LET st == scanLines(split(message, "\n"), 1,
                      [destination |-> "", body |-> "", inBody |-> FALSE])
  IN [command |-> "MESSAGE", destination |-> st.destination, body |-> st.body]

\* a MESSAGE frame as the peer composes it: one header line ("" for none),
\* the body, and whether a line break stands between the body and the NUL;
\* NoFrame in the steps that handle no wire text
NoFrame == [header |-> "", body |-> "", ownLine |-> FALSE]

WireHeaders ==
  {"", "message-id:7", "destination:/topic/other"}
    \cup {"destination:" \o d : d \in Destinations}

WireBodies == Bodies \cup {"destination:" \o d \o "\n{}" : d \in Destinations}

WireFrames == [header : WireHeaders, body : WireBodies, ownLine : BOOLEAN]

\* the wire text of frame f: command, header lines, blank line, body, NUL
Wire(f) ==
  "MESSAGE\n" \o (IF f.header = "" THEN "" ELSE f.header \o "\n") \o "\n"
    \o f.body \o (IF f.ownLine THEN "\n" ELSE "") \o NUL

\* ---- the step record -------------------------------------------------------
\* what the step just taken handled: the operation or event, the socket it came
\* from, the delay of the timer that fired, a flag (see each action), the
\* destination of a MESSAGE and the callback that threw during its dispatch;
\* callback is the callback argument of a subscribe or unsubscribe call (for a
\* MESSAGE, of the unsubscribe call a callback made), body the body of a MESSAGE
Event(op, sock, delay, stale, destination, threw) ==
  [op |-> op, sock |-> sock, delay |-> delay, stale |-> stale,
   destination |-> destination, threw |-> threw, callback |-> "", body |-> "",
   frame |-> NoFrame, wire |-> ""]

Call(op) == Event(op, 0, 0, FALSE, "", "")

\* a call of subscribe or unsubscribe with its arguments
CallWith(op, destination, callback) ==
  [Event(op, 0, 0, FALSE, destination, "") EXCEPT !.callback = callback]

\* subscriptionCounter after s stays within the bound
WithinBounds(s) == s.subscriptionCounter <= MaxSubscriptions

\* disconnect() leaves the pending timers in place; they are marked as set
\* before a disconnect()
MarkStale(b) ==
  LET ts == BagToSet(b)
      copies(t) == IF t \in ts THEN CopiesIn(t, b) ELSE 0
      count(d) == copies([delay |-> d, stale |-> FALSE])
                    + copies([delay |-> d, stale |-> TRUE])
  IN [t \in {[delay |-> u.delay, stale |-> TRUE] : u \in ts} |-> count(t.delay)]

\* the callback whose exception ended the dispatch, "" if none
Threw(list, throwing) ==
  IF list # << >> /\ list[Len(list)] \in throwing THEN list[Len(list)] ELSE ""

\* ---- initial state: the constructed singleton ------------------------------
Init ==
  /\ ws = 0
  /\ reconnectAttempts = 0
  /\ callbacks = EmptyMap
  /\ marketCallbacks = EmptyMap
  /\ depthCallbacks = EmptyMap
  /\ lastTradeCallbacks = EmptyMap
  /\ subscriptions = << >>
  /\ subscriptionCounter = 0
  /\ connected = FALSE
  /\ wsUrlValid \in BOOLEAN
  /\ sockets = << >>
  /\ timers = EmptyBag
  /\ blobs = EmptyBag
  /\ last = Call("new")
  /\ invoked = << >>

\* ---- actions -----------------------------------------------------------------
Connect ==
  /\ BagCardinality(timers) < MaxTimers
  /\ Becomes(connect(Self))
  /\ last' = Call("connect")
  /\ invoked' = << >>
  /\ UNCHANGED <<wsUrlValid, blobs>>

Disconnect ==
  /\ LET s == disconnect(Self)
     IN Becomes([s EXCEPT !.timers = MarkStale(@)])
  /\ last' = Event("disconnect", ws, 0, FALSE, "", "")
  /\ invoked' = << >>
  /\ UNCHANGED <<wsUrlValid, blobs>>

\* a pending timer fires: connectInternal; stale tells whether disconnect() was
\* called while the timer was pending
TimerFires ==
  \E t \in BagToSet(timers) :
    /\ wsUrlValid => Len(sockets) < MaxTransports
    /\ Becomes(connectInternal([Self EXCEPT !.timers = @ (-) SetToBag({t})]))
    /\ last' = Event("timer", 0, t.delay, t.stale, "", "")
    /\ invoked' = << >>
    /\ UNCHANGED <<wsUrlValid, blobs>>

SocketOpens ==
  \E t \in 1..Len(sockets) :
    /\ sockets[t].readyState = "CONNECTING"
    /\ Becomes(onopen([Self EXCEPT !.sockets[t].readyState = "OPEN"]))
    /\ last' = Event("onopen", t, 0, FALSE, "", "")
    /\ invoked' = << >>
    /\ UNCHANGED <<wsUrlValid, blobs>>

\* the close event of socket t: the connection failed, dropped, or was closed
\* with close(); stale tells that close() had been called on it (CLOSING)
SocketCloses ==
  \E t \in 1..Len(sockets) :
    /\ sockets[t].readyState \in {"CONNECTING", "OPEN", "CLOSING"}
    /\ Becomes(onclose([Self EXCEPT !.sockets[t].readyState = "CLOSED"]))
    /\ last' = Event("onclose", t, 0, sockets[t].readyState = "CLOSING", "", "")
    /\ invoked' = << >>
    /\ UNCHANGED <<wsUrlValid, blobs>>

Subscribe(k, cb) ==
  /\ LET d == AccountDestination(k)
     IN MapHas(callbacks, d) => Len(MapGet(callbacks, d)) < MaxCallbacks
  /\ WithinBounds(subscribe(Self, k, cb))
  /\ Becomes(subscribe(Self, k, cb))
  /\ last' = CallWith("subscribe", AccountDestination(k), cb)
  /\ invoked' = << >>
  /\ UNCHANGED <<wsUrlValid, blobs>>

Unsubscribe(k, cb) ==
  /\ Becomes(unsubscribe(Self, k, cb))
  /\ last' = CallWith("unsubscribe", AccountDestination(k), cb)
  /\ invoked' = << >>
  /\ UNCHANGED <<wsUrlValid, blobs>>

\* the frames the peer may put on socket t now: a MESSAGE for a destination
\* that a SUBSCRIBE frame on t has named, and CONNECTED once, in answer to a
\* CONNECT frame on t
Inbound(t) ==
  {StompMessage(d) : d \in {x \in Destinations :
                              \E i \in 1..Len(sockets[t].sent) :
                                /\ sockets[t].sent[i].command = "SUBSCRIBE"
                                /\ sockets[t].sent[i].destination = x}}
    \cup (IF ~sockets[t].acked /\ \E i \in 1..Len(sockets[t].sent) :
                                      sockets[t].sent[i].command = "CONNECT"
          THEN {ConnectedMessage} ELSE {})

\* ws.onmessage with string data: handleMessage -> parseMessage
TextMessage ==
  \E t \in 1..Len(sockets) :
    /\ sockets[t].readyState = "OPEN"
    /\ \E m \in Inbound(t), throwing \in SUBSET CallbackIds :
         LET s0 == [Self EXCEPT !.sockets[t].acked = @ \/ m.command = "CONNECTED"]
             s1 == parseMessage(s0, m)
             list == handleStompMessage(s0, m, throwing)
         IN /\ WithinBounds(s1)
            /\ Becomes(s1)
            /\ invoked' = list
            /\ last' = Event(m.command, t, 0, FALSE, m.destination, Threw(list, throwing))
    /\ UNCHANGED <<wsUrlValid, blobs>>

\* ws.onmessage with Blob data: handleMessage starts data.text()
BlobMessage ==
  \E t \in 1..Len(sockets) :
    /\ sockets[t].readyState = "OPEN"
    /\ BagCardinality(blobs) < MaxBlobs
    /\ \E m \in Inbound(t) :
         /\ blobs' = blobs (+) SetToBag({[message |-> m, sock |-> t]})
         /\ sockets' = [sockets EXCEPT ![t].acked = @ \/ m.command = "CONNECTED"]
    /\ last' = Event("blob", t, 0, FALSE, "", "")
    /\ invoked' = << >>
    /\ UNCHANGED <<ws, reconnectAttempts, callbacks, marketCallbacks, depthCallbacks,
                   lastTradeCallbacks, subscriptions, subscriptionCounter, connected,
                   wsUrlValid, timers>>

\* data.text().then(text => this.parseMessage(text)); stale tells that the
\* text was decoded after the event that delivered it
BlobDecoded ==
  \E b \in BagToSet(blobs), throwing \in SUBSET CallbackIds :
    LET s1 == parseMessage(Self, b.message)
        list == handleStompMessage(Self, b.message, throwing)
    IN /\ WithinBounds(s1)
       /\ Becomes(s1)
       /\ invoked' = list
       /\ blobs' = blobs (-) SetToBag({b})
       /\ last' = Event(b.message.command, b.sock, 0, TRUE, b.message.destination,
                        Threw(list, throwing))
       /\ UNCHANGED wsUrlValid

\* the MESSAGE frames the peer may put on socket t when several destinations
\* are in use: for a destination that a SUBSCRIBE frame on t has named
RouterInbound(t) ==
  {[command |-> "MESSAGE", destination |-> d, body |-> b] :
     d \in {x \in RouterDestinations :
              \E i \in 1..Len(sockets[t].sent) :
                /\ sockets[t].sent[i].command = "SUBSCRIBE"
                /\ sockets[t].sent[i].destination = x},
     b \in Bodies}

\* the account callbacks that a MESSAGE for destination d can reach
Registered(d) ==
  IF MapHas(callbacks, d)
  THEN {MapGet(callbacks, d)[i] : i \in 1..Len(MapGet(callbacks, d))}
  ELSE {}

\* ws.onmessage with a MESSAGE frame as string data, the callbacks throwing or
\* calling unsubscribe
RouterMessage ==
  \E t \in 1..Len(sockets) :
    /\ sockets[t].readyState = "OPEN"
    /\ \E m \in RouterInbound(t) :
         \E throwing \in SUBSET (IF JSONparses(m.body)
                                 THEN Registered(m.destination) ELSE {}) :
           \E call \in {c \in Calls :
                          \/ c = NoCall
                          \/ /\ JSONparses(m.body)
                             /\ c.caller \in Registered(m.destination) \ throwing} :
             LET r == handleStompMessageLive(Self, m, throwing, call)
                 called == \E j \in 1..Len(r.invoked) : r.invoked[j] = call.caller
             IN /\ call # NoCall => called
                /\ Becomes(r.self)
                /\ invoked' = r.invoked
                /\ last' = [Event("MESSAGE", t, 0, FALSE, m.destination,
                                   Threw(r.invoked, throwing))
                              EXCEPT !.callback = call.callback, !.body = m.body]
    /\ UNCHANGED <<wsUrlValid, blobs>>

\* ws.onmessage with the wire text of a MESSAGE frame as string data:
\* handleMessage -> parseMessage -> handleStompMessage
WireMessage ==
  \E t \in 1..Len(sockets) :
    /\ sockets[t].readyState = "OPEN"
    /\ \E f \in WireFrames :
         LET m == decodeMessage(Wire(f))
         IN /\ startsWith(Wire(f), "MESSAGE")
            /\ \E throwing \in SUBSET (IF JSONparses(m.body)
                                       THEN Registered(m.destination) ELSE {}) :
                 LET r == handleStompMessageLive(Self, m, throwing, NoCall)
                 IN /\ Becomes(r.self)
                    /\ invoked' = r.invoked
                    /\ last' = [Event("MESSAGE", t, 0, FALSE, m.destination,
                                      Threw(r.invoked, throwing))
                                 EXCEPT !.body = m.body, !.frame = f, !.wire = Wire(f)]
    /\ UNCHANGED <<wsUrlValid, blobs>>

\* the MESSAGE frames with a JSON body the peer may put on socket t: for any
\* destination that a SUBSCRIBE frame on t has named
TemplateInbound(t) ==
  {[command |-> "MESSAGE", destination |-> sockets[t].sent[i].destination,
    body |-> "{}"] :
     i \in {j \in 1..Len(sockets[t].sent) : sockets[t].sent[j].command = "SUBSCRIBE"}}

\* ws.onmessage with such a MESSAGE frame, no callback throwing
TemplateMessage ==
  \E t \in 1..Len(sockets) :
    /\ sockets[t].readyState = "OPEN"
    /\ \E m \in TemplateInbound(t) :
         LET r == handleStompMessageLive(Self, m, {}, NoCall)
         IN /\ Becomes(r.self)
            /\ invoked' = r.invoked
            /\ last' = [Event("MESSAGE", t, 0, FALSE, m.destination, "")
                         EXCEPT !.body = m.body]
    /\ UNCHANGED <<wsUrlValid, blobs>>

SubscribeToMarketData(i) ==
  /\ MapHas(depthCallbacks, DepthDestination(i))
       => Len(MapGet(depthCallbacks, DepthDestination(i))) < MaxCallbacks
  /\ WithinBounds(subscribeToMarketData(Self, i, "onDepth", "onLastTrade"))
  /\ Becomes(subscribeToMarketData(Self, i, "onDepth", "onLastTrade"))
  /\ last' = CallWith("subscribeToMarketData", DepthDestination(i), "onDepth")
  /\ invoked' = << >>
  /\ UNCHANGED <<wsUrlValid, blobs>>

UnsubscribeFromMarketData(i) ==
  /\ Becomes(unsubscribeFromMarketData(Self, i, "onDepth", "onLastTrade"))
  /\ last' = CallWith("unsubscribeFromMarketData", DepthDestination(i), "onDepth")
  /\ invoked' = << >>
  /\ UNCHANGED <<wsUrlValid, blobs>>

SendRequest(k, scope) ==
  /\ wsOpen(Self)
       => Cardinality({i \in 1..Len(sockets[ws].sent) :
                         sockets[ws].sent[i].command = "SEND"}) < MaxRequests
  /\ Becomes(sendRequest(Self, k, scope))
  /\ last' = [CallWith("sendRequest", AccountDestination(k), "") EXCEPT !.body = scope]
  /\ invoked' = << >>
  /\ UNCHANGED <<wsUrlValid, blobs>>

\* the transports that are connecting or open
Live == {t \in 1..Len(sockets) : sockets[t].readyState \in {"CONNECTING", "OPEN"}}

\* the session with text frames
Next ==
  \/ Connect
  \/ Disconnect
  \/ TimerFires
  \/ SocketOpens
  \/ SocketCloses
  \/ \E k \in AccountKeys, cb \in CallbackIds : Subscribe(k, cb)
  \/ \E k \in AccountKeys, cb \in CallbackIds : Unsubscribe(k, cb)
  \/ TextMessage

Spec == Init /\ [][Next]_vars

\* one session: connect() is called when nothing is under way (no timer
\* pending, no socket created yet), disconnect() is not called; the rest is
\* transport events, timers and subscribe/unsubscribe calls
ConnectOnce ==
  /\ timers = EmptyBag
  /\ sockets = << >>
  /\ Connect

NextSession ==
  \/ ConnectOnce
  \/ TimerFires
  \/ SocketOpens
  \/ SocketCloses
  \/ \E k \in AccountKeys, cb \in CallbackIds : Subscribe(k, cb)
  \/ \E k \in AccountKeys, cb \in CallbackIds : Unsubscribe(k, cb)
  \/ TextMessage

SpecSession == Init /\ [][NextSession]_vars

\* one session whose peer sends binary frames as well as text frames
NextSessionBlob ==
  \/ NextSession
  \/ BlobMessage
  \/ BlobDecoded

SpecSessionBlob == Init /\ [][NextSessionBlob]_vars

\* one session in which two accounts and one instrument are subscribed and the
\* callbacks may throw or call unsubscribe while a MESSAGE is dispatched
NextRouter ==
  \/ ConnectOnce
  \/ TimerFires
  \/ SocketOpens
  \/ \E k \in RouterAccountKeys, cb \in CallbackIds : Subscribe(k, cb)
  \/ \E k \in RouterAccountKeys, cb \in CallbackIds : Unsubscribe(k, cb)
  \/ \E i \in InstrumentKeys : SubscribeToMarketData(i)
  \/ \E i \in InstrumentKeys : UnsubscribeFromMarketData(i)
  \/ TextMessage
  \/ RouterMessage

SpecRouter == Init /\ [][NextRouter]_vars

\* the session and its requests: every lifecycle call and event, and
\* sendRequest; nothing is subscribed
NextRequest ==
  \/ Connect
  \/ Disconnect
  \/ TimerFires
  \/ SocketOpens
  \/ SocketCloses
  \/ TextMessage
  \/ \E k \in AccountKeys, scope \in Scopes : SendRequest(k, scope)

SpecRequest == Init /\ [][NextRequest]_vars

\* sessions one after the other with two accounts: connect() is called when no
\* timer is pending and no transport is live, disconnect() at any time
ConnectIdle ==
  /\ timers = EmptyBag
  /\ Live = {}
  /\ Connect

NextIds ==
  \/ ConnectIdle
  \/ Disconnect
  \/ TimerFires
  \/ SocketOpens
  \/ SocketCloses
  \/ \E k \in RouterAccountKeys : Subscribe(k, "f")
  \/ \E k \in RouterAccountKeys : Unsubscribe(k, "f")
  \/ TextMessage

SpecIds == Init /\ [][NextIds]_vars

\* one session whose peer sends MESSAGE frames of every composition
NextWire ==
  \/ NextSession
  \/ WireMessage

SpecWire == Init /\ [][NextWire]_vars

\* one session in which accounts and instruments whose keys hold '/markets/'
\* or '/depth' are subscribed
NextTemplate ==
  \/ ConnectOnce
  \/ TimerFires
  \/ SocketOpens
  \/ \E k \in TemplateAccountKeys : Subscribe(k, "f")
  \/ \E i \in TemplateInstrumentKeys : SubscribeToMarketData(i)
  \/ TextMessage
  \/ TemplateMessage

SpecTemplate == Init /\ [][NextTemplate]_vars

\* one session with market data only, in which the transport may close and
\* be replaced
NextMarket ==
  \/ ConnectOnce
  \/ TimerFires
  \/ SocketOpens
  \/ SocketCloses
  \/ \E i \in InstrumentKeys : SubscribeToMarketData(i)
  \/ \E i \in InstrumentKeys : UnsubscribeFromMarketData(i)
  \/ TextMessage

SpecMarket == Init /\ [][NextMarket]_vars

\* sessions one after the other whose peer sends text and binary frames:
\* connect() is called when no timer is pending and no transport is live,
\* disconnect() at any time, also while a Blob is being decoded
NextLate ==
  \/ ConnectIdle
  \/ Disconnect
  \/ TimerFires
  \/ SocketOpens
  \/ SocketCloses
  \/ TextMessage
  \/ BlobMessage
  \/ BlobDecoded

SpecLate == Init /\ [][NextLate]_vars

\* one session in which every pending timer fires in the end, and the server
\* opens a connecting transport and answers its CONNECT frame unless the
\* transport closes first
Accepts == TextMessage /\ last'.op = "CONNECTED"

SpecRecover ==
  /\ SpecSession
  /\ WF_vars(TimerFires)
  /\ WF_vars(SocketOpens)
  /\ WF_vars(Accepts)

\* ---- observations on the frames written ------------------------------------
\* positions of the frames of one command about destination d on socket t
Frames(t, command, d) ==
  {i \in 1..Len(sockets[t].sent) :
     sockets[t].sent[i].command = command /\ sockets[t].sent[i].about = d}

\* frames of one command about d on all sockets
Emitted(command, d) ==
  UNION {{<<t, i>> : i \in Frames(t, command, d)} : t \in 1..Len(sockets)}

\* socket t carries a SUBSCRIBE for d that no later UNSUBSCRIBE on t takes back
SubscribedOn(t, d) ==
  \E i \in Frames(t, "SUBSCRIBE", d) :
    \A j \in Frames(t, "UNSUBSCRIBE", d) : j < i

\* the states of the session
Opening ==
  \/ [delay |-> connectDelay, stale |-> FALSE] \in BagToSet(timers)
  \/ ws # 0 /\ sockets[ws].readyState = "CONNECTING"
AwaitingAck == wsOpen(Self) /\ ~connected
Connected == isConnected(Self)

\* ---- claims ------------------------------------------------------------------

\* C1: after a transport close, a new transport open and a CONNECTED frame on
\* it, every destination with at least one registered callback has exactly one
\* SUBSCRIBE frame on the new transport, and a destination without callbacks none.
C1_ResubscribedOnNewTransport ==
  (/\ last.op = "CONNECTED"
   /\ last.sock = ws
   /\ \E t \in 1..(ws - 1) : sockets[t].readyState = "CLOSED")
  => \A d \in Destinations :
       Cardinality(Frames(ws, "SUBSCRIBE", d)) = IF MapHas(callbacks, d) THEN 1 ELSE 0

\* C2: a reconnect timer that was pending when disconnect() was called never
\* creates a new transport.
C2_StaleReconnectTimerNeverFires ==
  (last.op = "timer" /\ last.delay # connectDelay /\ wsUrlValid) => ~last.stale

\* C3: the close event of the transport that disconnect() closed schedules no
\* reconnection and leaves the attempt counter alone.
C3_ClosedIsTerminal ==
  [][(last'.op = "onclose" /\ last'.stale)
       => (timers' = timers /\ reconnectAttempts' = reconnectAttempts)]_vars

\* C4: at most one transport created by the session is connecting or open.
C4_AtMostOneLiveTransport == Cardinality(Live) <= 1

\* C5: connect() called while the session is Opening, AwaitingAck or Connected
\* creates no transport and schedules no timer.
C5_ConnectIsNoOpWhenActive ==
  [][(last'.op = "connect" /\ (Opening \/ AwaitingAck \/ Connected))
       => (timers' = timers /\ sockets' = sockets /\ ws' = ws)]_vars

\* C6: the 500 ms timer of a connect() call that was pending when disconnect()
\* was called never opens a transport.
C6_StaleConnectTimerNeverFires ==
  (last.op = "timer" /\ last.delay = connectDelay /\ wsUrlValid) => ~last.stale

\* C7: for every destination, the SUBSCRIBE frames emitted for it are as many
\* as the UNSUBSCRIBE frames emitted for it, or one more.
C7_SubscribeUnsubscribeBalance ==
  \A d \in Destinations :
    LET n == Cardinality(Emitted("SUBSCRIBE", d)) - Cardinality(Emitted("UNSUBSCRIBE", d))
    IN n = 0 \/ n = 1

\* C8: a transport carries a SUBSCRIBE frame only if a CONNECTED frame has been
\* received on that transport.
C8_NoSubscribeBeforeConnected ==
  \A t \in 1..Len(sockets) :
    (\E i \in 1..Len(sockets[t].sent) : sockets[t].sent[i].command = "SUBSCRIBE")
      => sockets[t].acked

\* C9: whenever the session is Connected, every destination with a registered
\* callback has a SUBSCRIBE frame on the current transport that no UNSUBSCRIBE
\* has taken back.
C9_InterestNeverDropped ==
  (Connected /\ sockets[ws].acked)
    => \A d \in Destinations : MapHas(callbacks, d) => SubscribedOn(ws, d)

\* C10: the dispatch of a MESSAGE invokes every callback registered for its
\* destination, also those registered after a callback that throws.
C10_ThrowingCallbackIsIsolated ==
  (last.op = "MESSAGE" /\ MapHas(callbacks, last.destination))
    => LET list == MapGet(callbacks, last.destination)
       IN \A i \in 1..Len(list) : \E j \in 1..Len(invoked) : invoked[j] = list[i]

\* C11: when a callback calls unsubscribe while a MESSAGE is dispatched (and no
\* callback throws), every callback registered for the destination at the
\* start of the dispatch is invoked exactly once.
C11_ReentrantUnsubscribeSkipsNone ==
  [][\A d \in RouterDestinations :
       (/\ last'.op = "MESSAGE"
        /\ last'.destination = d
        /\ last'.callback # ""
        /\ last'.threw = ""
        /\ MapHas(callbacks, d)
        /\ \A i, j \in 1..Len(MapGet(callbacks, d)) :
             MapGet(callbacks, d)[i] = MapGet(callbacks, d)[j] => i = j)
         => \A i \in 1..Len(MapGet(callbacks, d)) :
              Cardinality({j \in 1..Len(invoked') :
                             invoked'[j] = MapGet(callbacks, d)[i]}) = 1]_vars

\* C12: a MESSAGE with a well-formed JSON body for /account/K/updates invokes
\* every callback registered with subscribe(K, .), and no other callback.
C12_MessageReachesItsAccountOnly ==
  [][\A k \in RouterAccountKeys :
       (/\ last'.op = "MESSAGE"
        /\ last'.destination = AccountDestination(k)
        /\ JSONparses(last'.body))
         => LET list == IF MapHas(callbacks, AccountDestination(k))
                         THEN MapGet(callbacks, AccountDestination(k))
                         ELSE << >>
            IN /\ \A i \in 1..Len(list) :
                    \E j \in 1..Len(invoked') : invoked'[j] = list[i]
               /\ \A j \in 1..Len(invoked') :
                    \E i \in 1..Len(list) : list[i] = invoked'[j]
               /\ Len(invoked') <= Len(list)]_vars

\* C13: with two distinct callbacks registered on a destination, a MESSAGE for
\* it invokes both in registration order; with one of them removed, a MESSAGE
\* invokes the one that is left and only that one.
C13_BothInOrderThenTheOther ==
  [][\A d \in Destinations :
       (/\ last'.op = "MESSAGE"
        /\ last'.destination = d
        /\ MapHas(callbacks, d)
        /\ \/ Len(MapGet(callbacks, d)) = 1
           \/ /\ Len(MapGet(callbacks, d)) = 2
              /\ MapGet(callbacks, d)[1] # MapGet(callbacks, d)[2])
         => invoked' = MapGet(callbacks, d)]_vars

\* C14: subscribe called with a key and a callback that is already registered
\* for that key is a no-op: the callback list stays as it is.
C14_RegistrationIsIdempotent ==
  [][(/\ last'.op = "subscribe"
      /\ MapHas(callbacks, last'.destination)
      /\ indexOf(MapGet(callbacks, last'.destination), last'.callback) > 0)
       => callbacks' = callbacks]_vars

\* C15: an unsubscribe call that removes the last callback of a destination
\* deletes the destination's callback entry and its subscription id, whether
\* or not the transport is open, and emits an UNSUBSCRIBE frame exactly when
\* the session is Connected.
C15_LastUnsubscribeReleases ==
  [][\A d \in Destinations :
       (/\ last'.op = "unsubscribe"
        /\ last'.destination = d
        /\ MapHas(callbacks, d)
        /\ MapGet(callbacks, d) = <<last'.callback>>)
         => /\ ~MapHas(callbacks', d)
            /\ d \notin DOMAIN subscriptions'
            /\ (Emitted("UNSUBSCRIBE", d)' # Emitted("UNSUBSCRIBE", d)) <=> Connected]_vars

\* C16: unsubscribe called with a callback that is not registered for the
\* destination, or for a destination without an entry, changes no callback
\* list and no subscription id and writes no frame.
C16_UnsubscribeUnknownIsNoOp ==
  [][(/\ last'.op = "unsubscribe"
      /\ \/ ~MapHas(callbacks, last'.destination)
         \/ indexOf(MapGet(callbacks, last'.destination), last'.callback) = 0)
       => /\ callbacks' = callbacks
          /\ marketCallbacks' = marketCallbacks
          /\ depthCallbacks' = depthCallbacks
          /\ lastTradeCallbacks' = lastTradeCallbacks
          /\ subscriptions' = subscriptions
          /\ subscriptionCounter' = subscriptionCounter
          /\ sockets' = sockets]_vars

\* an unsubscribe call was made for a callback that the full list of its
\* destination does not hold
C16_Witness ==
  /\ last.op = "unsubscribe"
  /\ MapHas(callbacks, last.destination)
  /\ Len(MapGet(callbacks, last.destination)) = MaxCallbacks
  /\ indexOf(MapGet(callbacks, last.destination), last.callback) = 0

\* C17: every step in which the reconnect attempt counter goes from a positive
\* value to zero is the handling of a CONNECTED frame.
C17_OnlyConnectedResetsCounter ==
  [][(reconnectAttempts > 0 /\ reconnectAttempts' = 0) => last'.op = "CONNECTED"]_vars

\* C17 as amended: every step in which the counter goes from a positive value
\* to zero is the handling of a CONNECTED frame or a disconnect() call.
C17_OnlyConnectedOrDisconnectResetsCounter ==
  [][(reconnectAttempts > 0 /\ reconnectAttempts' = 0)
       => last'.op \in {"CONNECTED", "disconnect"}]_vars

\* a CONNECTED frame on the second socket has reset the counter that the close
\* of the first, never acknowledged, socket had raised
C17_Witness ==
  /\ last.op = "CONNECTED"
  /\ last.sock > 1
  /\ sockets[1].readyState = "CLOSED"
  /\ ~sockets[1].acked
  /\ reconnectAttempts = 0

\* C18: a connect() call made after maxReconnectAttempts attempts have failed,
\* with no timer pending and no transport live, resets the retry budget.
C18_ConnectResetsRetryBudget ==
  [][(/\ last'.op = "connect"
      /\ reconnectAttempts = maxReconnectAttempts
      /\ timers = EmptyBag
      /\ Live = {})
       => reconnectAttempts' < maxReconnectAttempts]_vars

\* C19: the n-th consecutive reconnect attempt is scheduled after
\* 1000, 2000, 4000, 8000, 16000 ms for n = 1..5, and with the counter at 5
\* no retry is scheduled.
C19_BackoffSchedule ==
  [][(last'.op = "onclose" \/ (last'.op = "timer" /\ ~wsUrlValid))
       => LET delays == <<1000, 2000, 4000, 8000, 16000>>
              fired == [delay |-> last'.delay, stale |-> last'.stale]
              before == IF last'.op = "timer"
                        THEN timers (-) SetToBag({fired})
                        ELSE timers
          IN IF reconnectAttempts < Len(delays)
             THEN /\ reconnectAttempts' = reconnectAttempts + 1
                  /\ timers' = before (+) SetToBag({[delay |-> delays[reconnectAttempts'],
                                                     stale |-> FALSE]})
             ELSE /\ reconnectAttempts' = reconnectAttempts
                  /\ timers' = before]_vars

\* the fifth reconnect attempt has been scheduled
C19_Witness ==
  /\ last.op \in {"onclose", "timer"}
  /\ reconnectAttempts = 5
  /\ [delay |-> 16000, stale |-> FALSE] \in BagToSet(timers)

\* C20: disconnect() writes a DISCONNECT frame exactly when the session is
\* Connected at the call, closes the transport, and leaves no transport
\* handle, empty callback maps, an empty subscription map, the attempt counter
\* at zero and isConnected() false.
C20_DisconnectClearsSession ==
  [][last'.op = "disconnect"
       => /\ ws' = 0
          /\ callbacks' = EmptyMap
          /\ marketCallbacks' = EmptyMap
          /\ depthCallbacks' = EmptyMap
          /\ lastTradeCallbacks' = EmptyMap
          /\ DOMAIN subscriptions' = {}
          /\ reconnectAttempts' = 0
          /\ ~Connected'
          /\ Len(sockets') = Len(sockets)
          /\ \A t \in 1..Len(sockets) :
               /\ t = ws => sockets'[t].readyState \notin {"CONNECTING", "OPEN"}
               /\ t # ws => sockets'[t].readyState = sockets[t].readyState
               /\ sockets'[t].sent = IF t = ws /\ Connected
                                     THEN Append(sockets[t].sent, DisconnectFrame)
                                     ELSE sockets[t].sent]_vars

\* disconnect() was called on a Connected session: the DISCONNECT frame is the
\* last frame on the socket, which is closing
C20_Witness ==
  /\ last.op = "disconnect"
  /\ last.sock # 0
  /\ sockets[last.sock].readyState = "CLOSING"
  /\ sockets[last.sock].sent # << >>
  /\ sockets[last.sock].sent[Len(sockets[last.sock].sent)] = DisconnectFrame
  /\ ws = 0

\* C21: sendRequest called while the session is not connected or the
\* transport is not open writes no frame and changes no state, and a SEND frame
\* is written only on a transport on which CONNECTED has been received.
C21_SendRequestOnlyWhenConnected ==
  [][last'.op = "sendRequest"
       => /\ ~(connected /\ wsOpen(Self))
               => UNCHANGED <<ws, reconnectAttempts, callbacks, marketCallbacks,
                              depthCallbacks, lastTradeCallbacks, subscriptions,
                              subscriptionCounter, connected, sockets, timers, blobs>>
          /\ \A t \in 1..Len(sockets) :
               sockets'[t].sent # sockets[t].sent => sockets[t].acked]_vars

\* C24: a MESSAGE is not delivered to the callbacks of its destination while a
\* MESSAGE for the same destination that arrived before it (as a Blob) is
\* still waiting to be delivered.
C24_PerTopicOrder ==
  ~(/\ last.op = "MESSAGE"
    /\ ~last.stale
    /\ invoked # << >>
    /\ \E b \in BagToSet(blobs) : b.message = StompMessage(last.destination))

\* C25: an unsubscribe(K, cb) call leaves cb out of the callbacks of K's
\* destination, disconnect() leaves no callback registered, and the dispatch
\* of a MESSAGE invokes only callbacks registered for its destination; so a
\* callback whose registration was removed is not invoked afterwards.
C25_RemovedCallbackNeverInvoked ==
  [][/\ last'.op = "unsubscribe"
          => (MapHas(callbacks', last'.destination)
                => indexOf(MapGet(callbacks', last'.destination), last'.callback) = 0)
     /\ last'.op = "disconnect" => callbacks' = EmptyMap
     /\ last'.op = "MESSAGE"
          => \A j \in 1..Len(invoked') :
               /\ MapHas(callbacks, last'.destination)
               /\ indexOf(MapGet(callbacks, last'.destination), invoked'[j]) > 0]_vars

\* C26: a frame is written by a public operation only on the transport the
\* session holds and only while that transport is open, so that no send()
\* raises to the caller.
C26_PublicOperationsSendOnOpenTransport ==
  [][last'.op \in {"connect", "disconnect", "subscribe", "unsubscribe",
                   "subscribeToMarketData", "unsubscribeFromMarketData",
                   "sendRequest"}
       => /\ Len(sockets') = Len(sockets)
          /\ \A t \in 1..Len(sockets) :
               sockets'[t].sent # sockets[t].sent
                 => t = ws /\ sockets[t].readyState = "OPEN"]_vars

\* a public operation has written a frame
C26_Witness ==
  /\ last.op = "unsubscribe"
  /\ ws # 0
  /\ sockets[ws].readyState = "OPEN"
  /\ Frames(ws, "UNSUBSCRIBE", last.destination) # {}

\* C29: every open transport carries exactly one CONNECT frame, as its first
\* frame.
C29_OneConnectPerOpenTransport ==
  \A t \in 1..Len(sockets) :
    sockets[t].readyState = "OPEN"
      => /\ Cardinality({i \in 1..Len(sockets[t].sent) :
                           sockets[t].sent[i].command = "CONNECT"}) = 1
         /\ sockets[t].sent[1].command = "CONNECT"

\* C30: isConnected() is true only if a CONNECTED frame has been received on
\* the transport the session holds.
C30_IsConnectedOnlyAfterConnected ==
  isConnected(Self) => sockets[ws].acked

\* C22: the id in every SUBSCRIBE frame is greater than the id in every
\* SUBSCRIBE frame written before it, on any transport, across unsubscribe,
\* reconnect and disconnect()/connect(); and no two destinations hold the
\* same id.
C22_SubscriptionIdsIncrease ==
  [][/\ \A t \in 1..Len(sockets) :
          \A i \in (Len(sockets[t].sent) + 1)..Len(sockets'[t].sent) :
            sockets'[t].sent[i].command = "SUBSCRIBE"
              => /\ \A u \in 1..Len(sockets) :
                      \A j \in 1..Len(sockets[u].sent) :
                        sockets[u].sent[j].command = "SUBSCRIBE"
                          => sockets[u].sent[j].id < sockets'[t].sent[i].id
                 /\ \A j \in (Len(sockets[t].sent) + 1)..(i - 1) :
                      sockets'[t].sent[j].command = "SUBSCRIBE"
                        => sockets'[t].sent[j].id < sockets'[t].sent[i].id
     /\ \A d1, d2 \in DOMAIN subscriptions' :
          d1 # d2 => subscriptions'[d1] # subscriptions'[d2]]_vars

\* SUBSCRIBE frames for two destinations, one written before a disconnect()
\* and one on the transport of the next session
C22_Witness ==
  /\ Len(sockets) = 2
  /\ \E i \in 1..Len(sockets[1].sent) : sockets[1].sent[i] = DisconnectFrame
  /\ \E d \in RouterDestinations : Frames(1, "SUBSCRIBE", d) # {}
  /\ \E d \in RouterDestinations : Frames(2, "SUBSCRIBE", d) # {}
  /\ Cardinality(DOMAIN subscriptions) = 2

\* C23: a MESSAGE frame with no destination header, or with no body or an
\* empty body, invokes no callback and changes no state of the client.
C23_NoDestinationOrBodyIsDropped ==
  [][(/\ last'.op = "MESSAGE"
      /\ last'.wire # ""
      /\ \/ ~startsWith(last'.frame.header, "destination:")
         \/ last'.frame.body = "")
       => /\ invoked' = << >>
          /\ UNCHANGED <<ws, reconnectAttempts, callbacks, marketCallbacks,
                         depthCallbacks, lastTradeCallbacks, subscriptions,
                         subscriptionCounter, connected, sockets, timers, blobs>>]_vars

\* C27: a MESSAGE frame whose body is not JSON, or whose destination header
\* names no known destination, invokes no callback and changes no state of
\* the client, and a MESSAGE with a JSON body for a registered destination
\* handled next (its NUL on a line of its own) reaches the callbacks of that
\* destination.
C27_CorruptFrameIsDropped ==
  [][(/\ last'.op = "MESSAGE"
      /\ last'.wire # ""
      /\ \/ ~JSONparses(last'.frame.body)
         \/ /\ startsWith(last'.frame.header, "destination:")
            /\ \A d \in RouterDestinations : last'.frame.header # "destination:" \o d)
       => /\ invoked' = << >>
          /\ UNCHANGED <<ws, reconnectAttempts, callbacks, marketCallbacks,
                         depthCallbacks, lastTradeCallbacks, subscriptions,
                         subscriptionCounter, connected, sockets, timers, blobs>>
          /\ \A d \in Destinations :
               MapHas(callbacks', d)
                 => LET f == [header |-> "destination:" \o d, body |-> "{}",
                              ownLine |-> TRUE]
                    IN handleStompMessageLive(Self', decodeMessage(Wire(f)),
                                              {}, NoCall).invoked
                         = MapGet(callbacks', d)]_vars

\* C28: when the transport the session holds closes after CONNECTED was
\* received on it, and disconnect() is not called, a new transport is created
\* in the end, and the session becomes Connected again (isConnected() true)
\* unless every further transport within MaxTransports has closed or the
\* subscription ids within MaxSubscriptions are used up.
C28_AutomaticRecovery ==
  \A t \in 1..(MaxTransports - 1) :
    LET ClosedWhileConnected ==
          /\ last.op = "onclose"
          /\ last.sock = t
          /\ Len(sockets) = t
          /\ sockets[t].acked
    IN /\ ClosedWhileConnected ~> (Len(sockets) > t)
       /\ ClosedWhileConnected
            ~> \/ Connected
               \/ /\ Len(sockets) = MaxTransports
                  /\ sockets[MaxTransports].readyState = "CLOSED"
               \/ subscriptionCounter = MaxSubscriptions

\* the session is Connected on a second transport after the first one, on
\* which CONNECTED had been received, closed
C28_Witness ==
  /\ Len(sockets) = 2
  /\ sockets[1].readyState = "CLOSED"
  /\ sockets[1].acked
  /\ ws = 2
  /\ sockets[2].acked
  /\ Connected

\* C31: every UNSUBSCRIBE frame carries the id of a SUBSCRIBE frame written
\* before it on the same transport for the same destination, with no other
\* UNSUBSCRIBE of that id in between.
C31_UnsubscribeNamesLiveSubscription ==
  \A t \in 1..Len(sockets) :
    \A i \in 1..Len(sockets[t].sent) :
      sockets[t].sent[i].command = "UNSUBSCRIBE"
        => \E j \in 1..(i - 1) :
             /\ sockets[t].sent[j]
                  = SubscribeFrame(sockets[t].sent[i].id, sockets[t].sent[i].about)
             /\ \A k \in (j + 1)..(i - 1) :
                  ~(/\ sockets[t].sent[k].command = "UNSUBSCRIBE"
                    /\ sockets[t].sent[k].id = sockets[t].sent[i].id)

\* C32: the body decoded from a MESSAGE frame never holds the NUL, and for a
\* body of one line it is exactly the body of the frame, whether the NUL
\* follows the body directly or stands on a line of its own.
C32_DecodedBodyExcludesNul ==
  (last.op = "MESSAGE" /\ last.wire # "")
    => /\ ~includes(last.body, NUL)
       /\ ~includes(last.frame.body, "\n") => last.body = last.frame.body

\* C33: the destination decoded from a MESSAGE frame is the one of its
\* destination header ("" without such a header), whatever the body holds,
\* and a body line that starts with "destination:" stays in the decoded body.
C33_DestinationFromHeadersOnly ==
  (last.op = "MESSAGE" /\ last.wire # "")
    => /\ last.destination
            = (IF startsWith(last.frame.header, "destination:")
               THEN trim(substring(last.frame.header, Len("destination:")))
               ELSE "")
       /\ includes(last.frame.body, "destination:")
            => includes(last.body, "destination:")

\* C34: a MESSAGE with a JSON body whose destination is the one subscribe(key)
\* builds reaches the account callbacks of that key, and one whose destination
\* is /markets/{key}/last_trade reaches the last-trade callbacks of that key,
\* also when the key holds '/markets/', '/depth' or '/last_trade'.
C34_ClassifiedByTemplate ==
  [][(last'.op = "MESSAGE" /\ last'.body = "{}")
       => /\ \A k \in TemplateAccountKeys :
               (/\ last'.destination = AccountDestination(k)
                /\ MapHas(callbacks, AccountDestination(k)))
                 => invoked' = MapGet(callbacks, AccountDestination(k))
          /\ \A i \in TemplateInstrumentKeys :
               (/\ last'.destination = LastTradeDestination(i)
                /\ MapHas(lastTradeCallbacks, LastTradeDestination(i)))
                 => invoked' = MapGet(lastTradeCallbacks, LastTradeDestination(i))]_vars

\* C35: reconnectAttempts is always within 0..maxReconnectAttempts; every
\* reconnect timer scheduled adds one to it, and it goes down only by a reset
\* to 0, so that at most maxReconnectAttempts reconnect timers are scheduled
\* between two resets.
C35_ReconnectBudget ==
  [][LET scheduled == BagCardinality(timers' (-) timers)
         reconnects ==
           \A t \in BagToSet(timers' (-) timers) :
             ~t.stale /\ t.delay # connectDelay
     IN /\ reconnectAttempts' \in 0..maxReconnectAttempts
        /\ (scheduled > 0 /\ reconnects)
             => reconnectAttempts' = reconnectAttempts + scheduled
        /\ reconnectAttempts' < reconnectAttempts => reconnectAttempts' = 0]_vars

\* the budget is used up: the fifth reconnect timer is pending
C35_Witness ==
  /\ reconnectAttempts = maxReconnectAttempts
  /\ [delay |-> reconnectDelay * pow(2, maxReconnectAttempts - 1), stale |-> FALSE]
       \in BagToSet(timers)

C37_ConnectedOnlyWithTransport ==
  [][/\ connected' => ws' # 0
     /\ (last'.op = "connect" /\ ws = 0)
          => BagCardinality(timers') = BagCardinality(timers) + 1]_vars

====
